---- MODULE Spec2Model ----
(***************************************************************************)
(* URL Content Saver MCP Server: the path resolver (getBaseDirectory,      *)
(* isPathSafe), the transfer pipeline (fetchUrlAsStream, saveStreamToFile) *)
(* and the saveUrlContent tool handler registered by                       *)
(* createUrlContentSaverServer.                                            *)
(*                                                                         *)
(* A path or any other string is a sequence of one-character strings, so   *)
(* that startsWith / includes are the character-level tests the code       *)
(* performs.  Path functions follow Node's path.posix.                     *)
(***************************************************************************)
EXTENDS Integers, Sequences, FiniteSets, TLC

(***************************************************************************)
(* Strings                                                                 *)
(***************************************************************************)

\* String.prototype.startsWith
StartsWith(s, prefix) ==
    /\ Len(prefix) <= Len(s)
    /\ SubSeq(s, 1, Len(prefix)) = prefix

\* String.prototype.includes
Includes(s, sub) ==
    \E i \in 1..(Len(s) + 1) :
        /\ i + Len(sub) - 1 <= Len(s)
        /\ SubSeq(s, i, i + Len(sub) - 1) = sub

\* The value of an environment variable or object field that is not set.
Undefined == <<"undefined">>

\* JavaScript truthiness of a string-or-undefined value.
Truthy(v) == v # Undefined /\ v # <<>>

(***************************************************************************)
(* path.posix                                                              *)
(***************************************************************************)

Sep == "/"

IsAbsolute(p) == Len(p) > 0 /\ p[1] = Sep

\* The pieces of p between separators (empty pieces included).
RECURSIVE Segments(_, _, _)
Segments(p, i, cur) ==
    IF i > Len(p) THEN <<cur>>
    ELSE IF p[i] = Sep THEN <<cur>> \o Segments(p, i + 1, <<>>)
    ELSE Segments(p, i + 1, Append(cur, p[i]))

\* Node's normalizeString: drops "" and ".", resolves "..".
RECURSIVE NormalizeSegs(_, _, _)
NormalizeSegs(segs, acc, allowAboveRoot) ==
    IF segs = <<>> THEN acc
    ELSE LET s == Head(segs)
             rest == Tail(segs)
         IN  IF s = <<>> \/ s = <<".">>
             THEN NormalizeSegs(rest, acc, allowAboveRoot)
             ELSE IF s = <<".", ".">>
             THEN IF acc # <<>> /\ acc[Len(acc)] # <<".", ".">>
                  THEN NormalizeSegs(rest, SubSeq(acc, 1, Len(acc) - 1), allowAboveRoot)
                  ELSE IF allowAboveRoot
                  THEN NormalizeSegs(rest, Append(acc, s), allowAboveRoot)
                  ELSE NormalizeSegs(rest, acc, allowAboveRoot)
             ELSE NormalizeSegs(rest, Append(acc, s), allowAboveRoot)

RECURSIVE JoinSegs(_)
JoinSegs(segs) ==
    IF segs = <<>> THEN <<>>
    ELSE IF Len(segs) = 1 THEN segs[1]
    ELSE segs[1] \o <<Sep>> \o JoinSegs(Tail(segs))

NormalizeString(p, allowAboveRoot) ==
    JoinSegs(NormalizeSegs(Segments(p, 1, <<>>), <<>>, allowAboveRoot))

\* path.normalize
Normalize(p) ==
    IF Len(p) = 0 THEN <<".">>
    ELSE LET abs == IsAbsolute(p)
             trailing == p[Len(p)] = Sep
             n == NormalizeString(p, ~abs)
         IN  IF Len(n) = 0
             THEN IF abs THEN <<Sep>>
                  ELSE IF trailing THEN <<".", Sep>> ELSE <<".">>
             ELSE (IF abs THEN <<Sep>> ELSE <<>>) \o n
                  \o (IF trailing THEN <<Sep>> ELSE <<>>)

\* The right-to-left accumulation of path.resolve, stopping at the first
\* absolute argument; wd is what process.cwd() returns.
RECURSIVE ResolveAcc(_, _, _)
ResolveAcc(wd, args, acc) ==
    IF IsAbsolute(acc) THEN acc
    ELSE IF args = <<>> THEN wd \o <<Sep>> \o acc
    ELSE LET a == args[Len(args)]
             front == SubSeq(args, 1, Len(args) - 1)
         IN  IF Len(a) = 0 THEN ResolveAcc(wd, front, acc)
             ELSE ResolveAcc(wd, front, a \o <<Sep>> \o acc)

\* path.resolve(...args) in a process whose working directory is wd.
Resolve(wd, args) ==
    LET joined == ResolveAcc(wd, args, <<>>)
        abs == IsAbsolute(joined)
        n == NormalizeString(joined, ~abs)
    IN  IF abs THEN <<Sep>> \o n
        ELSE IF Len(n) > 0 THEN n ELSE <<".">>

\* path.resolve consults process.cwd() only when no argument is absolute.
ResolveNeedsCwd(args) == \A i \in 1..Len(args) : ~IsAbsolute(args[i])

\* path.dirname of an absolute path.
Dirname(p) ==
    LET segs == NormalizeSegs(Segments(p, 1, <<>>), <<>>, FALSE)
    IN  IF Len(segs) <= 1 THEN <<Sep>>
        ELSE <<Sep>> \o JoinSegs(SubSeq(segs, 1, Len(segs) - 1))

(***************************************************************************)
(* The world the process runs in                                           *)
(***************************************************************************)

\* Directory and file names of the modelled machine.
RootDir == <<"/">>
WorkDir == <<"/", "w">>
HomeDir == <<"/", "h">>
VsCwdDir == <<"/", "v">>
VsExtDir == <<"/", "v", "e">>
VsWsDir == <<"/", "v", "s">>
CfgDir1 == <<"/", "b", "1">>
CfgDir2 == <<"/", "b", "2">>
CfgDir3 == <<"/", "b", "3">>
MissingDir == <<"/", "n">>
PlainFile == <<"/", "f">>
\* A working directory whose name carries the Trae signature.
TraeDir == <<"/", "A", "/", "T">>

\* "AppData\\Local\\Programs\\Trae" and "AppData/Local/Programs/Trae",
\* each shortened to its first and last letter around its separator.
TraeSigBackslash == <<"A", "\\", "T">>
TraeSigSlash == <<"A", "/", "T">>

\* "D:\\AM\\GitHub\\web-chatter", shortened.
WebChatterDir == <<"D", ":", "\\", "c">>

\* ".mcp-config.json" and "mcp-config.json", shortened.
DotConfigName == <<".", "c">>
ConfigName == <<"c">>

\* Texts a configuration file can hold: one that JSON.parse rejects, an
\* object without baseDir, and an object whose baseDir is the given path.
BadJson == <<"{">>
EmptyJson == <<"{", "}">>
JsonWithBaseDir(d) == <<"{", "baseDir:">> \o d \o <<"}">>

EnvNames == {"MCP_ALLOW_ANY_PATH", "MCP_BASE_DIR", "VSCODE_CWD",
             "VSCODE_EXTENSION_PATH", "VSCODE_WORKSPACE_FOLDER"}

VARIABLES
    penv,       \* process.env, restricted to EnvNames
    launchEnv,  \* process.env as the operator set it when the process started
    cwd,        \* the process's working directory
    cwdGone,    \* TRUE when the working directory was removed: process.cwd() throws
    dirs,       \* the directories on disk (absolute, normalized)
    files,      \* the files on disk: path -> content
    servers,    \* number of servers createUrlContentSaverServer has returned
    probe,      \* the last direct call of getBaseDirectory / isPathSafe and its result
    reqs,       \* the saveUrlContent invocations: each in progress or finished
    http        \* the HTTP server: its session map, its transports, its last request

envVars == <<penv, launchEnv, cwd, cwdGone>>
fsVars == <<dirs, files>>
vars == <<penv, launchEnv, cwd, cwdGone, dirs, files, servers, probe, reqs, http>>

\* The handler is re-entered while an earlier invocation awaits.
Invocations == {"first", "second"}

\* The first invocation.
req == reqs["first"]

(***************************************************************************)
(* fs                                                                      *)
(***************************************************************************)

\* The absolute path the operating system looks up for p.
OnDisk(p) == Resolve(cwd, <<p>>)

\* fs.existsSync: false on any error, so false for a relative path when the
\* working directory is gone.
ExistsSync(p) ==
    /\ Len(p) > 0
    /\ ~(cwdGone /\ ~IsAbsolute(p))
    /\ (OnDisk(p) \in dirs \/ OnDisk(p) \in DOMAIN files)

\* fs.statSync(p).isDirectory(), for a p that exists.
IsDirectory(p) == OnDisk(p) \in dirs

\* path.join(a, b)
Join(a, b) == Normalize(a \o <<Sep>> \o b)

(***************************************************************************)
(* Results of calls that may throw                                         *)
(***************************************************************************)

Returned(v) == [raised |-> FALSE, value |-> v, error |-> <<>>]
Raised(msg) == [raised |-> TRUE, value |-> Undefined, error |-> msg]

\* The message of the error process.cwd() throws when the directory is gone.
CwdErrorMessage == <<"ENOENT:", "no", "such", "file", "or", "directory,", "uv_cwd">>

(***************************************************************************)
(* getBaseDirectory                                                        *)
(***************************************************************************)

\* JSON.parse(fs.readFileSync(configPath)).baseDir; Undefined when the read
\* or the parse throws (the inner catch) or the object has no baseDir.
ConfigBaseDir(configPath) ==
    IF OnDisk(configPath) \notin DOMAIN files THEN Undefined
    ELSE LET text == files[OnDisk(configPath)]
         IN  IF /\ Len(text) >= 3
                /\ text[1] = "{"
                /\ text[2] = "baseDir:"
                /\ text[Len(text)] = "}"
             THEN SubSeq(text, 3, Len(text) - 1)
             ELSE Undefined

ConfigPaths_HomeFirst ==
    << Join(HomeDir, DotConfigName), Join(cwd, DotConfigName), Join(cwd, ConfigName) >>
ConfigPaths ==
    << Join(cwd, DotConfigName), Join(cwd, ConfigName), Join(HomeDir, DotConfigName) >>

\* The loop over configPaths: the baseDir of the first candidate that
\* exists, parses and names an existing path; Undefined when none does.
RECURSIVE FirstConfigBaseDir(_)
FirstConfigBaseDir(paths) ==
    IF paths = <<>> THEN Undefined
    ELSE IF /\ ExistsSync(Head(paths))
            /\ Truthy(ConfigBaseDir(Head(paths)))
            /\ ExistsSync(ConfigBaseDir(Head(paths)))
    THEN ConfigBaseDir(Head(paths))
    ELSE FirstConfigBaseDir(Tail(paths))

\* The three VS Code variables, in the order the code consults them.
FirstWorkspaceSignal_ExtensionFirst ==
    IF Truthy(penv["VSCODE_EXTENSION_PATH"]) THEN penv["VSCODE_EXTENSION_PATH"]
    ELSE IF Truthy(penv["VSCODE_CWD"]) THEN penv["VSCODE_CWD"]
    ELSE IF Truthy(penv["VSCODE_WORKSPACE_FOLDER"]) THEN penv["VSCODE_WORKSPACE_FOLDER"]
    ELSE Undefined
FirstWorkspaceSignal ==
    IF Truthy(penv["VSCODE_CWD"]) THEN penv["VSCODE_CWD"]
    ELSE IF Truthy(penv["VSCODE_EXTENSION_PATH"]) THEN penv["VSCODE_EXTENSION_PATH"]
    ELSE IF Truthy(penv["VSCODE_WORKSPACE_FOLDER"]) THEN penv["VSCODE_WORKSPACE_FOLDER"]
    ELSE Undefined

GetBaseDirectory ==
    IF Truthy(penv["MCP_BASE_DIR"]) /\ ExistsSync(penv["MCP_BASE_DIR"])
    THEN Returned(penv["MCP_BASE_DIR"])
    ELSE IF cwdGone THEN Raised(CwdErrorMessage)
    ELSE IF FirstConfigBaseDir(ConfigPaths) # Undefined
    THEN Returned(FirstConfigBaseDir(ConfigPaths))
    ELSE IF FirstWorkspaceSignal # Undefined THEN Returned(FirstWorkspaceSignal)
    ELSE IF ~ExistsSync(cwd) \/ ~IsDirectory(cwd) THEN Returned(HomeDir)
    ELSE Returned(cwd)

(***************************************************************************)
(* isPathSafe                                                              *)
(***************************************************************************)

TrueText == <<"t", "r", "u", "e">>
FalseText == <<"f", "a", "l", "s", "e">>

LowerCase == <<"a", "b", "c", "d", "e", "f", "g", "h", "i", "j", "k", "l", "m",
               "n", "o", "p", "q", "r", "s", "t", "u", "v", "w", "x", "y", "z">>
UpperCase == <<"A", "B", "C", "D", "E", "F", "G", "H", "I", "J", "K", "L", "M",
               "N", "O", "P", "Q", "R", "S", "T", "U", "V", "W", "X", "Y", "Z">>
Letters == {LowerCase[i] : i \in DOMAIN LowerCase} \cup {UpperCase[i] : i \in DOMAIN UpperCase}

\* String.prototype.toUpperCase on one character
ToUpperCase(c) ==
    IF \E i \in DOMAIN LowerCase : LowerCase[i] = c
    THEN UpperCase[CHOOSE i \in DOMAIN LowerCase : LowerCase[i] = c]
    ELSE c

\* process.env.MCP_ALLOW_ANY_PATH === "true"
OverrideActive_Mistyped == penv["MCP_ALLOW_ANY_PATH"] = <<"1">>
OverrideActive == penv["MCP_ALLOW_ANY_PATH"] = TrueText

\* The "Augment Code" special case: the base directory carries the Trae signature.
UnrestrictedContext(baseDir) ==
    \/ Includes(baseDir, TraeSigBackslash)
    \/ Includes(baseDir, TraeSigSlash)

\* /^[a-zA-Z]:\\/.test(filePath)
HasDriveLetter(filePath) ==
    /\ Len(filePath) >= 3
    /\ filePath[1] \in Letters
    /\ filePath[2] = ":"
    /\ filePath[3] = "\\"

VsCodeSignal ==
    \/ Truthy(penv["VSCODE_CWD"])
    \/ Truthy(penv["VSCODE_EXTENSION_PATH"])
    \/ Truthy(penv["VSCODE_WORKSPACE_FOLDER"])

\* fs.readdirSync("/"): the names directly under the root.
RootEntries ==
    { NormalizeSegs(Segments(q, 1, <<>>), <<>>, FALSE)[1] :
        q \in (dirs \cup DOMAIN files) \ {RootDir} }

\* The drive-letter special case returns true.
DriveAllowed_Unanchored(filePath) ==
    /\ HasDriveLetter(filePath)
    /\ VsCodeSignal
    /\ <<ToUpperCase(filePath[1]), ":">> \in RootEntries
DriveAllowed(filePath) ==
    /\ IsAbsolute(filePath)
    /\ HasDriveLetter(filePath)
    /\ VsCodeSignal
    /\ <<ToUpperCase(filePath[1]), ":">> \in RootEntries

\* resolvedPath.startsWith(resolvedBaseDir), absolute and relative branch;
\* FALSE when path.resolve throws because the working directory is gone.
PrefixCheck(filePath, baseDir) ==
    IF IsAbsolute(filePath)
    THEN IF cwdGone /\ ResolveNeedsCwd(<<baseDir>>) THEN FALSE
         ELSE StartsWith(Resolve(cwd, <<filePath>>), Resolve(cwd, <<baseDir>>))
    ELSE IF cwdGone /\ ResolveNeedsCwd(<<baseDir>>) THEN FALSE
         ELSE StartsWith(Resolve(cwd, <<baseDir, Normalize(filePath)>>),
                         Resolve(cwd, <<baseDir>>))

Verdict(safe) == [raised |-> FALSE, safe |-> safe, error |-> <<>>]
VerdictRaised(msg) == [raised |-> TRUE, safe |-> FALSE, error |-> msg]

\* isPathSafe(filePath, baseDir); baseDir = Undefined when the argument is omitted.
IsPathSafe_Uncaught(filePath, baseDir) ==
    LET base == IF Truthy(baseDir) THEN Returned(baseDir) ELSE GetBaseDirectory
    IN  IF base.raised THEN VerdictRaised(base.error)
        ELSE IF OverrideActive THEN Verdict(TRUE)
        ELSE IF UnrestrictedContext(base.value) THEN Verdict(TRUE)
        ELSE IF DriveAllowed(filePath) THEN Verdict(TRUE)
        ELSE IF cwdGone /\ ResolveNeedsCwd(<<base.value>>)
        THEN VerdictRaised(CwdErrorMessage)
        ELSE Verdict(PrefixCheck(filePath, base.value))
IsPathSafe(filePath, baseDir) ==
    LET base == IF Truthy(baseDir) THEN Returned(baseDir) ELSE GetBaseDirectory
    IN  IF base.raised THEN VerdictRaised(base.error)
        ELSE IF OverrideActive THEN Verdict(TRUE)
        ELSE IF UnrestrictedContext(base.value) THEN Verdict(TRUE)
        ELSE IF DriveAllowed(filePath) THEN Verdict(TRUE)
        ELSE Verdict(PrefixCheck(filePath, base.value))

(***************************************************************************)
(* createUrlContentSaverServer                                             *)
(***************************************************************************)

MaxServers == 2

\* Logs the base directory (a throw of getBaseDirectory leaves the call
\* without a server and the state as it was), then sets MCP_ALLOW_ANY_PATH
\* to "true" when it is unset or empty.
EnvAfterCreateServer ==
    IF ~Truthy(penv["MCP_ALLOW_ANY_PATH"])
    THEN [penv EXCEPT !["MCP_ALLOW_ANY_PATH"] = TrueText]
    ELSE penv

CreateServer ==
    /\ servers < MaxServers
    /\ ~GetBaseDirectory.raised
    /\ penv' = EnvAfterCreateServer
    /\ servers' = servers + 1
    /\ UNCHANGED <<http, launchEnv, cwd, cwdGone, dirs, files, probe, reqs>>

(***************************************************************************)
(* fetchUrlAsStream                                                        *)
(***************************************************************************)

\* A URL is its scheme, ":" and the rest; a string without "scheme:" or
\* with an http(s)/ftp scheme and no host is rejected by new URL(url).
SpecialSchemes == {"http", "https", "ftp"}
KnownSchemes == SpecialSchemes \cup {"file", "data"}

UrlScheme(url) ==
    IF Len(url) >= 2 /\ url[1] \in KnownSchemes /\ url[2] = ":" THEN url[1] ELSE "none"

\* new URL(url) does not throw
UrlParses(url) ==
    /\ UrlScheme(url) # "none"
    /\ UrlScheme(url) \in SpecialSchemes => Len(url) >= 4

\* response.ok
ResponseOk_Any(status) == TRUE
ResponseOk(status) == status >= 200 /\ status <= 299

MaxBody == 2

Bytes == {"a", "b"}
Bodies == UNION { [1..n -> Bytes] : n \in 0..MaxBody }
NullBody == <<"null">>
HtmlType == <<"text/html">>
OctetStreamType == <<"application/octet-stream">>

\* What fetch(url) can settle with.  "rejected": the promise rejects (no
\* connection, or a scheme fetch does not support).  Otherwise a response;
\* contentType is Undefined when the header is absent, body is NullBody
\* when response.body is null.  A header sent with no value reads as "".
Rejection == [kind |-> "rejected", status |-> 0, statusText |-> "", contentType |-> Undefined,
              body |-> NullBody]
Response(status, statusText, contentType, body) ==
    [kind |-> "response", status |-> status, statusText |-> statusText,
     contentType |-> contentType, body |-> body]

HttpResponses ==
    { Response(200, "OK", ct, b) : ct \in {Undefined, HtmlType}, b \in Bodies }
    \cup { Response(200, "OK", <<>>, <<"a">>),
           Response(204, "No Content", Undefined, NullBody),
           Response(404, "Not Found", HtmlType, <<"a">>) }

FetchOutcomes(url) ==
    IF UrlScheme(url) \in {"http", "https"} THEN {Rejection} \cup HttpResponses
    ELSE IF UrlScheme(url) = "data" THEN { Response(200, "OK", HtmlType, <<"a">>) }
    ELSE {Rejection}

\* Error messages, word by word.
InvalidUrlMessage_FromFetch(url) ==
    <<"Failed", "to", "fetch", "URL:", "Failed", "to", "parse", "URL", "from">> \o url
InvalidUrlMessage(url) == <<"Invalid", "URL", "format:">> \o url
FetchFailedMessage == <<"Failed", "to", "fetch", "URL:", "fetch", "failed">>
HttpErrorMessage(status, statusText) ==
    <<"Failed", "to", "fetch", "URL:", ToString(status), statusText>>
BodyNullMessage == <<"Response", "body", "is", "null">>
InvalidPathMessage(baseDir) ==
    <<"Invalid", "file", "path:", "Path", "is", "outside", "the", "base", "directory">>
    \o baseDir
MkdirErrorMessage == <<"EEXIST:", "file", "already", "exists,", "mkdir">>
OpenErrorMessage == <<"EISDIR:", "illegal", "operation", "on", "a", "directory,", "open">>
StreamErrorMessage == <<"stream", "error">>
StatErrorMessage == <<"EACCES:", "permission", "denied,", "stat">>

\* metadata.contentType
ContentTypeOf_Raw(response) == response.contentType
ContentTypeOf(response) ==
    IF Truthy(response.contentType) THEN response.contentType ELSE OctetStreamType

(***************************************************************************)
(* saveStreamToFile                                                        *)
(***************************************************************************)

\* p and the directories above it.
RECURSIVE Ancestors(_)
Ancestors(p) == IF p = RootDir THEN {p} ELSE {p} \cup Ancestors(Dirname(p))

\* fs.ensureDir(directory) fails when a file is in the way.
EnsureDirFails(directory) == \E a \in Ancestors(directory) : a \in DOMAIN files

\* fs.createWriteStream(filePath) cannot open a directory.
OpenFails(filePath) == filePath \in dirs

\* fs.createWriteStream(filePath) without options opens with flags "w".
OpenFlags_Append == "a"
OpenFlags == "w"

\* Opening with flags "w" creates the file or truncates it; with "a" it
\* keeps what the file holds.
FilesAfterOpen_Append(filePath) ==
    IF filePath \in DOMAIN files THEN files
    ELSE [q \in DOMAIN files \cup {filePath} |-> IF q = filePath THEN <<>> ELSE files[q]]
FilesAfterOpen(filePath) ==
    [q \in DOMAIN files \cup {filePath} |->
        IF q = filePath
        THEN IF OpenFlags = "a" /\ filePath \in DOMAIN files THEN files[q] ELSE <<>>
        ELSE files[q]]

\* The byte a hole in a file reads as.
ZeroByte == "0"

\* A write of one byte through a descriptor whose offset is pos: it replaces
\* the byte there or extends the file, filling a hole with zero bytes.  A
\* descriptor opened with "a" writes at the end of the file.
WriteAt(content, pos, byte) ==
    LET at == IF OpenFlags = "a" THEN Len(content) ELSE pos
    IN  IF at < Len(content)
        THEN [content EXCEPT ![at + 1] = byte]
        ELSE content \o [k \in 1..(at - Len(content)) |-> ZeroByte] \o <<byte>>

\* (await fs.stat(filePath)).size
StatSize(filePath) == Len(files[filePath])

(***************************************************************************)
(* The saveUrlContent tool handler                                         *)
(***************************************************************************)

\* The result a handler returns: the object it serializes and isError.
Failure_Unflagged(msg) == [json |-> [success |-> FALSE, error |-> msg], isError |-> FALSE]
Failure(msg) == [json |-> [success |-> FALSE, error |-> msg], isError |-> TRUE]
Success(filePath, fileSize, response, url) ==
    [json |-> [success |-> TRUE, filePath |-> filePath, fileSize |-> fileSize,
               contentType |-> ContentTypeOf(response), url |-> url,
               statusCode |-> response.status],
     isError |-> FALSE]
NoResult == [json |-> [success |-> FALSE], isError |-> FALSE]

\* pc: "idle", "fetching" (await fetch), "ensureDir" (await fs.ensureDir),
\* "streaming" (await pipeline), "stat" (await fs.stat), "done".
\* fetchCalls, opened, stage, filesBefore and dirsBefore record what the
\* invocation did and the disk it started from; thrown is the message of
\* the error raised inside the handler, Undefined when none was.
NoRequest ==
    [pc |-> "idle", url |-> <<>>, filePath |-> <<>>, baseDir |-> Undefined,
     absolutePath |-> Undefined, fetchCalls |-> 0, response |-> Rejection,
     pending |-> <<>>, opened |-> FALSE, stage |-> "pending", result |-> NoResult,
     thrown |-> Undefined,
     filesBefore |-> <<>>, dirsBefore |-> {}]

\* Lines 97-133: the destination of the transfer.
AbsolutePath_Basename(filePath, baseDir) ==
    LET segs == Segments(filePath, 1, <<>>)
    IN  Resolve(cwd, <<baseDir, segs[Len(segs)]>>)
AbsolutePath(filePath, baseDir) ==
    LET normalizedPath == Normalize(filePath)
    IN  IF Includes(cwd, TraeSigBackslash) \/ Includes(cwd, TraeSigSlash)
        THEN IF ~IsAbsolute(normalizedPath)
             THEN IF ExistsSync(WebChatterDir)
                  THEN Resolve(cwd, <<WebChatterDir, normalizedPath>>)
                  ELSE Resolve(cwd, <<baseDir, normalizedPath>>)
             ELSE normalizedPath
        ELSE IF IsAbsolute(normalizedPath) THEN normalizedPath
             ELSE Resolve(cwd, <<baseDir, normalizedPath>>)

\* The disk when the handler starts to await the fetch: it has opened nothing.
FilesWhenFetchIssued_OpenedEarly(absolutePath) ==
    IF absolutePath \in dirs THEN files
    ELSE [q \in DOMAIN files \cup {absolutePath} |->
            IF q = absolutePath THEN <<>> ELSE files[q]]
FilesWhenFetchIssued(absolutePath) == files

Finish(r, result) == [r EXCEPT !.pc = "done", !.result = result]

\* Lines 171-198: the handler's catch turns an error into its error response.
Caught_Escapes(msg) == NoResult
Caught(msg) == Failure(msg)

\* An error is raised inside the handler's try block.
Throw(r, msg) == Finish([r EXCEPT !.thrown = msg], Caught(msg))

\* Line 79: if (!isPathSafe(filePath, baseDir))
PathRejected_Inverted(filePath, baseDir) == IsPathSafe(filePath, baseDir).safe
PathRejected(filePath, baseDir) == ~IsPathSafe(filePath, baseDir).safe

\* Invocation i becomes r; the other invocations stay as they are.
Becomes(i, r) == reqs' = [reqs EXCEPT ![i] = r]

\* The handler from its call to its first await (the fetch), or to its
\* return when it fails before that.
Call(i, url, filePath) ==
    /\ servers >= 1
    /\ reqs[i].pc = "idle"
    /\ LET started == [NoRequest EXCEPT !.url = url, !.filePath = filePath,
                                        !.stage = "validating",
                                        !.filesBefore = files, !.dirsBefore = dirs]
           base == GetBaseDirectory
       IN  IF base.raised
           THEN Becomes(i, Throw(started, base.error)) /\ files' = files
           ELSE LET known == [started EXCEPT !.baseDir = base.value]
                IN  IF PathRejected(filePath, base.value)
                    THEN /\ Becomes(i, Finish(known, Failure(InvalidPathMessage(base.value))))
                         /\ files' = files
                    ELSE IF cwdGone
                    THEN Becomes(i, Throw(known, CwdErrorMessage)) /\ files' = files
                    ELSE LET absolutePath == AbsolutePath(filePath, base.value)
                             resolved == [known EXCEPT !.absolutePath = absolutePath]
                         IN  IF ~UrlParses(url)
                             THEN /\ Becomes(i, Throw(resolved, InvalidUrlMessage(url)))
                                  /\ files' = files
                             ELSE /\ Becomes(i, [resolved EXCEPT !.pc = "fetching",
                                                                 !.stage = "fetching",
                                                                 !.fetchCalls = 1])
                                  /\ files' = FilesWhenFetchIssued(absolutePath)
    /\ UNCHANGED <<http, penv, launchEnv, cwd, cwdGone, dirs, servers, probe>>

\* fetch settles; on a 2xx response with a body the handler goes on into
\* saveStreamToFile and awaits fs.ensureDir.
FetchSettles(i, outcome) ==
    /\ reqs[i].pc = "fetching"
    /\ outcome \in FetchOutcomes(reqs[i].url)
    /\ Becomes(i, IF outcome.kind = "rejected"
                  THEN Throw(reqs[i], FetchFailedMessage)
                  ELSE IF ~ResponseOk(outcome.status)
                  THEN Throw([reqs[i] EXCEPT !.response = outcome],
                             HttpErrorMessage(outcome.status, outcome.statusText))
                  ELSE IF outcome.body = NullBody
                  THEN Throw([reqs[i] EXCEPT !.response = outcome], BodyNullMessage)
                  ELSE [reqs[i] EXCEPT !.response = outcome, !.pending = outcome.body,
                                       !.pc = "ensureDir", !.stage = "streaming"])
    /\ UNCHANGED <<http, penv, launchEnv, cwd, cwdGone, dirs, files, servers, probe>>

\* fs.ensureDir settles; on success the write stream is created and the
\* pipeline starts.
EnsureDir(i) ==
    /\ reqs[i].pc = "ensureDir"
    /\ LET directory == Dirname(reqs[i].absolutePath)
       IN  IF EnsureDirFails(directory)
           THEN Becomes(i, Throw(reqs[i], MkdirErrorMessage)) /\ dirs' = dirs
           ELSE /\ Becomes(i, [reqs[i] EXCEPT !.pc = "streaming"])
                /\ dirs' = dirs \cup Ancestors(directory)
    /\ UNCHANGED <<http, penv, launchEnv, cwd, cwdGone, files, servers, probe>>

\* The write stream opens its file.
Open(i) ==
    /\ reqs[i].pc = "streaming"
    /\ ~reqs[i].opened
    /\ IF OpenFails(reqs[i].absolutePath)
       THEN Becomes(i, Throw(reqs[i], OpenErrorMessage)) /\ files' = files
       ELSE /\ Becomes(i, [reqs[i] EXCEPT !.opened = TRUE])
            /\ files' = FilesAfterOpen(reqs[i].absolutePath)
    /\ UNCHANGED <<http, penv, launchEnv, cwd, cwdGone, dirs, servers, probe>>

\* The number of bytes invocation i has written: its descriptor's offset.
Written(r) == Len(r.response.body) - Len(r.pending)

\* The pipeline moves the next chunk of the body into the file.
WriteChunk(i) ==
    /\ reqs[i].pc = "streaming"
    /\ reqs[i].opened
    /\ reqs[i].pending # <<>>
    /\ files' = [files EXCEPT ![reqs[i].absolutePath] =
                    WriteAt(@, Written(reqs[i]), Head(reqs[i].pending))]
    /\ Becomes(i, [reqs[i] EXCEPT !.pending = Tail(@)])
    /\ UNCHANGED <<http, penv, launchEnv, cwd, cwdGone, dirs, servers, probe>>

\* The body ended and was flushed: the pipeline resolves.
StreamEnds(i) ==
    /\ reqs[i].pc = "streaming"
    /\ reqs[i].opened
    /\ reqs[i].pending = <<>>
    /\ Becomes(i, [reqs[i] EXCEPT !.pc = "stat"])
    /\ UNCHANGED <<http, penv, launchEnv, cwd, cwdGone, dirs, files, servers, probe>>

\* What saveStreamToFile's catch leaves on disk: it logs and rethrows.
FilesAfterStreamError_Unlinked(filePath) ==
    [q \in DOMAIN files \ {filePath} |-> files[q]]
FilesAfterStreamError(filePath) == files

\* The read side or the write side fails: the pipeline rejects.
StreamError(i) ==
    /\ reqs[i].pc = "streaming"
    /\ Becomes(i, Throw(reqs[i], StreamErrorMessage))
    /\ files' = FilesAfterStreamError(reqs[i].absolutePath)
    /\ UNCHANGED <<http, penv, launchEnv, cwd, cwdGone, dirs, servers, probe>>

\* fs.stat settles and the handler returns the success response.
Stat(i) ==
    /\ reqs[i].pc = "stat"
    /\ Becomes(i, Finish(reqs[i], Success(reqs[i].absolutePath,
                                          StatSize(reqs[i].absolutePath),
                                          reqs[i].response, reqs[i].url)))
    /\ UNCHANGED <<http, penv, launchEnv, cwd, cwdGone, dirs, files, servers, probe>>

\* fs.stat rejects (the path can no longer be searched).
StatError(i) ==
    /\ reqs[i].pc = "stat"
    /\ Becomes(i, Throw(reqs[i], StatErrorMessage))
    /\ UNCHANGED <<http, penv, launchEnv, cwd, cwdGone, dirs, files, servers, probe>>

(***************************************************************************)
(* startHttpServer: the /mcp routes and the session map                    *)
(***************************************************************************)

MaxTransports == 2
TransportIds == 1..MaxTransports

\* randomUUID(): the id the t-th transport generates, unlike every other.
Uuid(t) == <<"uuid", ToString(t)>>

\* Property names every object inherits from Object.prototype.
ObjectPrototypeKeys == { <<"constructor">> }

\* The values of the mcp-session-id header: absent, empty, names that no
\* session has, and the ids the transports generate.
HeaderValues ==
    {Undefined, <<>>, <<"unknown">>, <<"constructor">>} \cup {Uuid(t) : t \in TransportIds}

\* Request bodies: an initialize request and another JSON-RPC request.
InitializeBody == "initialize"
RequestBodies == {InitializeBody, "tools/call"}

\* isInitializeRequest(req.body)
IsInitializeRequest(body) == body = InitializeBody

\* The last request: answer is "router" when the route answered itself,
\* "transport" when it called transport.handleRequest, "none" when the route
\* handler threw before either; before is the session map at arrival.
HttpRequest(method, header, body, answer, status, transport, created) ==
    [method |-> method, header |-> header, body |-> body, answer |-> answer,
     status |-> status, transport |-> transport, created |-> created,
     before |-> http.transports]

\* transports: session id -> transport; made: transports constructed and
\* connected; sessionId, closed: the transports' own fields.
NoHttp ==
    [transports |-> <<>>, made |-> 0,
     sessionId |-> [t \in TransportIds |-> Undefined],
     closed |-> [t \in TransportIds |-> FALSE],
     tick |-> 0,
     last |-> [method |-> "none", header |-> Undefined, body |-> "none",
               answer |-> "none", status |-> 0, transport |-> 0, created |-> FALSE,
               before |-> <<>>]]

\* transports[sessionId] on a plain object: an own entry, a property
\* inherited from Object.prototype, or undefined.
Lookup(sessionId) ==
    IF sessionId \in DOMAIN http.transports
    THEN [kind |-> "own", transport |-> http.transports[sessionId]]
    ELSE IF sessionId \in ObjectPrototypeKeys
    THEN [kind |-> "inherited", transport |-> 0]
    ELSE [kind |-> "none", transport |-> 0]

\* onsessioninitialized: transports[sessionId] = transport
TransportsAfterInitialized(h, t, sessionId) ==
    [k \in DOMAIN h.transports \cup {sessionId} |->
        IF k = sessionId THEN t ELSE h.transports[k]]

\* onclose: if (transport.sessionId) delete transports[transport.sessionId]
TransportsAfterClose_Kept(h, t) == h.transports
TransportsAfterClose(h, t) ==
    IF Truthy(h.sessionId[t])
    THEN [k \in DOMAIN h.transports \ {h.sessionId[t]} |-> h.transports[k]]
    ELSE h.transports

\* transport.handleRequest: an initialize request gives the transport its
\* session id and reports it, once; a DELETE closes the transport; the
\* result is the server's state and the status of the response.
HandleRequest(h, t, method, body) ==
    IF method = "POST" /\ IsInitializeRequest(body)
    THEN IF h.sessionId[t] # Undefined
         THEN [h |-> h, status |-> 400]
         ELSE LET named == [h EXCEPT !.sessionId[t] = Uuid(t)]
              IN  [h |-> [named EXCEPT
                            !.transports = TransportsAfterInitialized(named, t, Uuid(t))],
                   status |-> 200]
    ELSE IF method = "DELETE"
    THEN [h |-> [h EXCEPT !.closed[t] = TRUE, !.transports = TransportsAfterClose(h, t)],
          status |-> 200]
    ELSE [h |-> h, status |-> 200]

\* The route's state after it answered: the request is recorded.
Answered(h, request) == [h EXCEPT !.last = request, !.tick = 1 - h.tick]

\* app.post("/mcp", ...)
Post(header, body) ==
    /\ (~Truthy(header) /\ IsInitializeRequest(body)) => http.made < MaxTransports
    /\ IF Truthy(header) /\ Lookup(header).kind # "none"
       THEN /\ IF Lookup(header).kind = "inherited"
               THEN http' = Answered(http, HttpRequest("POST", header, body, "none", 0, 0, FALSE))
               ELSE LET t == Lookup(header).transport
                        r == HandleRequest(http, t, "POST", body)
                    IN  http' = Answered(r.h, HttpRequest("POST", header, body, "transport",
                                                          r.status, t, FALSE))
            /\ UNCHANGED <<penv, servers>>
       ELSE IF ~Truthy(header) /\ IsInitializeRequest(body)
       THEN IF GetBaseDirectory.raised
            THEN /\ http' = Answered(http, HttpRequest("POST", header, body, "none", 0, 0, FALSE))
                 /\ UNCHANGED <<penv, servers>>
            ELSE LET t == http.made + 1
                     r == HandleRequest([http EXCEPT !.made = t], t, "POST", body)
                 IN  /\ http' = Answered(r.h, HttpRequest("POST", header, body, "transport",
                                                          r.status, t, TRUE))
                     /\ penv' = EnvAfterCreateServer
                     /\ servers' = servers + 1
       ELSE /\ http' = Answered(http, HttpRequest("POST", header, body, "router", 400, 0, FALSE))
            /\ UNCHANGED <<penv, servers>>
    /\ UNCHANGED <<launchEnv, cwd, cwdGone, dirs, files, probe, reqs>>

\* handleSessionRequest, the handler of GET and DELETE
HandleSessionRequest(method, header) ==
    /\ IF ~Truthy(header) \/ Lookup(header).kind = "none"
       THEN http' = Answered(http, HttpRequest(method, header, "none", "router", 400, 0, FALSE))
       ELSE IF Lookup(header).kind = "inherited"
       THEN http' = Answered(http, HttpRequest(method, header, "none", "none", 0, 0, FALSE))
       ELSE LET t == Lookup(header).transport
                r == HandleRequest(http, t, method, "none")
            IN  http' = Answered(r.h, HttpRequest(method, header, "none", "transport",
                                                  r.status, t, FALSE))
    /\ UNCHANGED <<penv, launchEnv, cwd, cwdGone, dirs, files, servers, probe, reqs>>

(***************************************************************************)
(* Direct calls of the two exported functions                              *)
(***************************************************************************)

NoProbe ==
    [op |-> "none", filePath |-> <<>>, baseDir |-> Undefined, env |-> penv,
     raised |-> FALSE, safe |-> FALSE, dir |-> Undefined]

CallGetBaseDirectory ==
    /\ probe' = [op |-> "getBaseDirectory", filePath |-> <<>>, baseDir |-> Undefined,
                 env |-> penv, raised |-> GetBaseDirectory.raised, safe |-> FALSE,
                 dir |-> GetBaseDirectory.value]
    /\ UNCHANGED <<http, penv, launchEnv, cwd, cwdGone, dirs, files, servers, reqs>>

CallIsPathSafe(filePath, baseDir) ==
    /\ probe' = [op |-> "isPathSafe", filePath |-> filePath, baseDir |-> baseDir,
                 env |-> penv, raised |-> IsPathSafe(filePath, baseDir).raised,
                 safe |-> IsPathSafe(filePath, baseDir).safe, dir |-> Undefined]
    /\ UNCHANGED <<http, penv, launchEnv, cwd, cwdGone, dirs, files, servers, reqs>>

(***************************************************************************)
(* Initial worlds                                                          *)
(***************************************************************************)

AllDirs ==
    {RootDir, WorkDir, HomeDir, VsCwdDir, VsExtDir, VsWsDir, <<"/", "b">>,
     CfgDir1, CfgDir2, CfgDir3, <<"/", "A">>, TraeDir}

\* The file a relative "x" names under the working directory.
ExistingContent == <<"o", "l", "d">>

\* w: [allow, base, vsCwd, vsExt, vsWs, wd, wdState, cfg1, cfg2, cfg3, existing,
\* webChatter]
\* wdState: "ok", "inaccessible" (process.cwd() answers, the directory cannot
\* be reached) or "gone" (process.cwd() throws).  cfg1..cfg3: the text of the
\* three candidate configuration files, Undefined when the file is missing.
\* existing: the paths that hold a file before the first request.
\* webChatter: whether the web-chatter directory exists.
InWorld(w) ==
    /\ penv = [n \in EnvNames |->
                 CASE n = "MCP_ALLOW_ANY_PATH" -> w.allow
                   [] n = "MCP_BASE_DIR" -> w.base
                   [] n = "VSCODE_CWD" -> w.vsCwd
                   [] n = "VSCODE_EXTENSION_PATH" -> w.vsExt
                   [] n = "VSCODE_WORKSPACE_FOLDER" -> w.vsWs]
    /\ launchEnv = penv
    /\ cwd = w.wd
    /\ cwdGone = (w.wdState = "gone")
    /\ dirs = (AllDirs \ (IF w.wdState = "ok" THEN {} ELSE {w.wd}))
              \cup (IF w.webChatter THEN {Resolve(w.wd, <<WebChatterDir>>)} ELSE {})
    /\ LET cfg == { e \in { <<Join(w.wd, DotConfigName), w.cfg1>>,
                            <<Join(w.wd, ConfigName), w.cfg2>> } :
                        e[2] # Undefined /\ w.wdState = "ok" }
                  \cup { e \in { <<Join(HomeDir, DotConfigName), w.cfg3>> } :
                        e[2] # Undefined }
           old == { <<q, ExistingContent>> : q \in w.existing }
           all == cfg \cup old \cup { <<PlainFile, <<>> >> }
       IN  files = [q \in {e[1] : e \in all} |-> (CHOOSE e \in all : e[1] = q)[2]]
    /\ servers = 0
    /\ probe = NoProbe
    /\ reqs = [i \in Invocations |-> NoRequest]
    /\ http = NoHttp

(***************************************************************************)
(* SpecBase: getBaseDirectory over the environments it reads               *)
(***************************************************************************)

BaseWorlds ==
    [allow : {Undefined},
     base : {Undefined, <<>>, WorkDir, MissingDir, PlainFile},
     vsCwd : {Undefined, VsCwdDir, MissingDir},
     vsExt : {Undefined, VsExtDir},
     vsWs : {Undefined, VsWsDir},
     wd : {WorkDir},
     wdState : {"ok", "inaccessible", "gone"},
     cfg1 : {Undefined, BadJson, JsonWithBaseDir(CfgDir1)},
     cfg2 : {Undefined, EmptyJson, JsonWithBaseDir(CfgDir2)},
     cfg3 : {Undefined, JsonWithBaseDir(MissingDir), JsonWithBaseDir(CfgDir3)},
     existing : {{}},
     webChatter : {FALSE}]

InitBase == \E w \in BaseWorlds : InWorld(w)
NextBase == CallGetBaseDirectory
SpecBase == InitBase /\ [][NextBase]_vars

(***************************************************************************)
(* SpecPath: isPathSafe over paths, base directories and environments      *)
(***************************************************************************)

PathInputs ==
    { <<"x">>, <<"d", "/", "x">>, <<".", ".", "/", "w", "2", "/", "x">>,
      <<".", ".", "/", ".", ".", "/", "e">>, <<"/", "w", "/", "x">>,
      <<"/", "w", "2", "/", "x">>, <<"/", "e">>, <<"/", "w">>,
      <<"/", "w", "/", ".", ".", "/", "e">>, <<"d", ":", "\\", "x">>,
      <<"d", ":", "\\", "/", ".", ".", "/", ".", ".", "/", "e">> }

\* An entry of the root directory that is named like a drive.
DriveEntry == <<"/", "D", ":">>

BaseInputs == {Undefined, WorkDir, <<"/", "w", "/">>, RootDir, TraeDir, <<"r">>}

PathWorlds ==
    [allow : {Undefined, <<>>, TrueText, FalseText},
     base : {Undefined},
     vsCwd : {Undefined, VsCwdDir},
     vsExt : {Undefined},
     vsWs : {Undefined},
     wd : {WorkDir},
     wdState : {"ok", "gone"},
     cfg1 : {Undefined},
     cfg2 : {Undefined},
     cfg3 : {Undefined},
     existing : {{}, {DriveEntry}},
     webChatter : {FALSE}]

InitPath == \E w \in PathWorlds : InWorld(w)
NextPath ==
    \/ CreateServer
    \/ \E filePath \in PathInputs, baseDir \in BaseInputs : CallIsPathSafe(filePath, baseDir)
SpecPath == InitPath /\ [][NextPath]_vars

(***************************************************************************)
(* Spec: a server is created and serves one saveUrlContent invocation      *)
(***************************************************************************)

RequestPaths ==
    { <<"x">>, <<"d", "/", "x">>, <<".", ".", "/", "w", "2", "/", "x">>,
      <<".", ".", "/", ".", ".", "/", "e">>, <<"/", "e", "/", "x">>,
      <<"/", "w">>, <<"/", "f", "/", "x">> }

RequestUrls ==
    { <<"not-a-url">>, <<"http", ":">>, <<"http", ":", "//", "h">>,
      <<"https", ":", "//", "h">>, <<"ftp", ":", "//", "h">>,
      <<"file", ":", "///", "e">>, <<"data", ":", ",", "a">> }

Worlds ==
    [allow : {Undefined, TrueText, FalseText},
     base : {Undefined},
     vsCwd : {Undefined},
     vsExt : {Undefined},
     vsWs : {Undefined},
     wd : {WorkDir, TraeDir},
     wdState : {"ok", "gone"},
     cfg1 : {Undefined},
     cfg2 : {Undefined},
     cfg3 : {Undefined},
     existing : {{}, {<<"/", "w", "/", "x">>}},
     webChatter : BOOLEAN]
    \cup
    \* MCP_BASE_DIR names a directory other than the Trae working directory.
    [allow : {FalseText},
     base : {WorkDir},
     vsCwd : {Undefined},
     vsExt : {Undefined},
     vsWs : {Undefined},
     wd : {TraeDir},
     wdState : {"ok"},
     cfg1 : {Undefined},
     cfg2 : {Undefined},
     cfg3 : {Undefined},
     existing : {{}},
     webChatter : BOOLEAN]

Init == \E w \in Worlds : InWorld(w)

Next ==
    \/ CreateServer
    \/ \E url \in RequestUrls, filePath \in RequestPaths : Call("first", url, filePath)
    \/ \E outcome \in FetchOutcomes(req.url) : FetchSettles("first", outcome)
    \/ EnsureDir("first")
    \/ Open("first")
    \/ WriteChunk("first")
    \/ StreamEnds("first")
    \/ StreamError("first")
    \/ Stat("first")
    \/ StatError("first")

Spec == Init /\ [][Next]_vars

(***************************************************************************)
(* SpecSeq: the same request twice, the second after the first returned,   *)
(* the remote resource answering the second as it answered the first       *)
(***************************************************************************)

SeqPaths == { <<"x">>, <<"d", "/", "x">> }
SeqUrls == { <<"http", ":", "//", "h">>, <<"ftp", ":", "//", "h">> }

SeqWorlds ==
    [allow : {Undefined},
     base : {Undefined},
     vsCwd : {Undefined},
     vsExt : {Undefined},
     vsWs : {Undefined},
     wd : {WorkDir},
     wdState : {"ok"},
     cfg1 : {Undefined},
     cfg2 : {Undefined},
     cfg3 : {Undefined},
     existing : {{}, {<<"/", "w", "/", "x">>}},
     webChatter : {FALSE}]

InitSeq == \E w \in SeqWorlds : InWorld(w)

NextSeq ==
    \/ CreateServer
    \/ \E url \in SeqUrls, filePath \in SeqPaths : Call("first", url, filePath)
    \/ \E outcome \in FetchOutcomes(req.url) : FetchSettles("first", outcome)
    \/ /\ req.pc = "done"
       /\ Call("second", req.url, req.filePath)
    \/ FetchSettles("second", req.response)
    \/ \E i \in Invocations : EnsureDir(i)
    \/ \E i \in Invocations : Open(i)
    \/ \E i \in Invocations : WriteChunk(i)
    \/ \E i \in Invocations : StreamEnds(i)
    \/ \E i \in Invocations : StreamError(i)
    \/ \E i \in Invocations : Stat(i)
    \/ \E i \in Invocations : StatError(i)

SpecSeq == InitSeq /\ [][NextSeq]_vars

(***************************************************************************)
(* SpecConc: two invocations of the handler in flight at once, their       *)
(* continuations interleaved by the event loop                             *)
(***************************************************************************)

ConcPaths == { <<"x">>, <<"d">>, <<"d", "/", "x">> }
ConcUrl == <<"http", ":", "//", "h">>

\* The first request's resource is made of "a" bytes, the second's of "b".
ByteOf(i) == IF i = "first" THEN "a" ELSE "b"

ConcOutcomes(i) ==
    { o \in FetchOutcomes(ConcUrl) :
        \/ o.kind = "rejected"
        \/ o.status = 404
        \/ /\ o.status = 200
           /\ o.contentType = HtmlType
           /\ \A k \in 1..Len(o.body) : o.body[k] = ByteOf(i) }

\* The file "x" names is on disk before the requests.
ConcWorlds == { w \in SeqWorlds : w.existing # {} }

InitConc == \E w \in ConcWorlds : InWorld(w)

\* Servers are created before the first request arrives.
NextConc ==
    \/ /\ \A i \in Invocations : reqs[i].pc = "idle"
       /\ CreateServer
    \/ \E i \in Invocations, filePath \in ConcPaths : Call(i, ConcUrl, filePath)
    \/ \E i \in Invocations : \E outcome \in ConcOutcomes(i) : FetchSettles(i, outcome)
    \/ \E i \in Invocations : EnsureDir(i)
    \/ \E i \in Invocations : Open(i)
    \/ \E i \in Invocations : WriteChunk(i)
    \/ \E i \in Invocations : StreamEnds(i)
    \/ \E i \in Invocations : StreamError(i)
    \/ \E i \in Invocations : Stat(i)
    \/ \E i \in Invocations : StatError(i)

SpecConc == InitConc /\ [][NextConc]_vars

(***************************************************************************)
(* SpecHttp: the HTTP server answers requests on /mcp                      *)
(***************************************************************************)

HttpWorlds ==
    [allow : {Undefined, FalseText},
     base : {Undefined},
     vsCwd : {Undefined},
     vsExt : {Undefined},
     vsWs : {Undefined},
     wd : {WorkDir},
     wdState : {"ok", "gone"},
     cfg1 : {Undefined},
     cfg2 : {Undefined},
     cfg3 : {Undefined},
     existing : {{}},
     webChatter : {FALSE}]

InitHttp == \E w \in HttpWorlds : InWorld(w)

NextHttp ==
    \/ \E header \in HeaderValues, body \in RequestBodies : Post(header, body)
    \/ \E method \in {"GET", "DELETE"}, header \in HeaderValues :
          HandleSessionRequest(method, header)

SpecHttp == InitHttp /\ [][NextHttp]_vars

(***************************************************************************)
(* Properties of isPathSafe (checked under SpecPath)                       *)
(***************************************************************************)

\* p is b or lies below b.
InSubtree(p, b) ==
    \/ p = b
    \/ StartsWith(p, IF b = RootDir THEN b ELSE b \o <<Sep>>)

\* The resolved forms of the arguments of the last isPathSafe call.
ProbeTarget ==
    IF IsAbsolute(probe.filePath) THEN Resolve(cwd, <<probe.filePath>>)
    ELSE Resolve(cwd, <<probe.baseDir, probe.filePath>>)
ProbeBase == Resolve(cwd, <<probe.baseDir>>)

\* C2: with no override active and the base directory not an unrestricted
\* context, isPathSafe(P, B) returns false for every P whose resolved form is
\* neither B itself nor a descendant of B, sibling directories whose name
\* extends B's name included.
C2_OutsideBaseIsRejected ==
    ( /\ probe.op = "isPathSafe"
      /\ Truthy(probe.baseDir)
      /\ probe.env["MCP_ALLOW_ANY_PATH"] # TrueText
      /\ ~UnrestrictedContext(probe.baseDir)
      /\ ~cwdGone
      /\ ~InSubtree(ProbeTarget, ProbeBase) )
    => (~probe.raised /\ probe.safe = FALSE)

\* C3: when MCP_ALLOW_ANY_PATH equals "true", isPathSafe returns true for
\* every path P and every base directory B.
C3_OverrideAllowsEveryPath ==
    ( /\ probe.op = "isPathSafe"
      /\ Truthy(probe.baseDir)
      /\ probe.env["MCP_ALLOW_ANY_PATH"] = TrueText )
    => (~probe.raised /\ probe.safe = TRUE)

\* The override let through a path that lies outside the base directory.
C3_Witness ==
    /\ probe.op = "isPathSafe"
    /\ probe.env["MCP_ALLOW_ANY_PATH"] = TrueText
    /\ probe.filePath = <<"/", "e">>
    /\ probe.baseDir = WorkDir
    /\ ~InSubtree(ProbeTarget, ProbeBase)
    /\ probe.safe = TRUE

(***************************************************************************)
(* Properties of getBaseDirectory (checked under SpecBase)                 *)
(***************************************************************************)

\* C4: in every environment getBaseDirectory returns without raising, and
\* what it returns is a non-empty path that exists on disk and is a directory.
C4_BaseDirectoryExists ==
    probe.op = "getBaseDirectory"
    => ( /\ ~probe.raised
         /\ Len(probe.dir) > 0
         /\ OnDisk(probe.dir) \in dirs )

\* The sources of the base directory in the order the specification lists
\* them, each with the condition under which it matches, read off the
\* environment and the disk.
OnDiskPaths == dirs \cup DOMAIN files
ConfigNames(q) ==
    IF q \in DOMAIN files
    THEN { d \in OnDiskPaths : files[q] = JsonWithBaseDir(d) }
    ELSE {}
ConfigSource(q) ==
    [matches |-> ConfigNames(q) # {},
     value |-> IF ConfigNames(q) # {} THEN CHOOSE d \in ConfigNames(q) : TRUE ELSE Undefined]
EnvSource(name) == [matches |-> penv[name] \notin {Undefined, <<>>}, value |-> penv[name]]
ListedSources ==
    << [matches |-> penv["MCP_BASE_DIR"] \in OnDiskPaths, value |-> penv["MCP_BASE_DIR"]],
       ConfigSource(cwd \o <<Sep>> \o DotConfigName),
       ConfigSource(cwd \o <<Sep>> \o ConfigName),
       ConfigSource(HomeDir \o <<Sep>> \o DotConfigName),
       EnvSource("VSCODE_CWD"),
       EnvSource("VSCODE_EXTENSION_PATH"),
       EnvSource("VSCODE_WORKSPACE_FOLDER"),
       [matches |-> cwd \in dirs, value |-> cwd],
       [matches |-> TRUE, value |-> HomeDir] >>
FirstListed ==
    ListedSources[CHOOSE i \in DOMAIN ListedSources :
                    /\ ListedSources[i].matches
                    /\ \A j \in 1..(i - 1) : ~ListedSources[j].matches].value

\* C5: the directory getBaseDirectory returns is the first match in the
\* order MCP_BASE_DIR (set and on disk), config files, VSCODE_CWD,
\* VSCODE_EXTENSION_PATH, VSCODE_WORKSPACE_FOLDER, working directory, home.
C5_FirstMatchWins ==
    (probe.op = "getBaseDirectory" /\ ~probe.raised) => probe.dir = FirstListed

\* A config file won over a VS Code variable while MCP_BASE_DIR, set to a
\* path that does not exist, and an unparsable first config file were skipped.
C5_Witness ==
    /\ probe.op = "getBaseDirectory"
    /\ penv["MCP_BASE_DIR"] = MissingDir
    /\ Join(cwd, DotConfigName) \in DOMAIN files
    /\ files[Join(cwd, DotConfigName)] = BadJson
    /\ Truthy(penv["VSCODE_CWD"])
    /\ Truthy(penv["VSCODE_EXTENSION_PATH"])
    /\ probe.dir = CfgDir2

(***************************************************************************)
(* Properties of the saveUrlContent handler (checked under Spec)           *)
(***************************************************************************)

Called == req.pc # "idle"
Done == req.pc = "done"
Failed == Done /\ req.result.json.success = FALSE
Succeeded == Done /\ req.result.json.success = TRUE

\* The path the request's filePath names, resolved against its base directory.
RequestTarget ==
    IF IsAbsolute(req.filePath) THEN Resolve(cwd, <<req.filePath>>)
    ELSE Resolve(cwd, <<req.baseDir, req.filePath>>)

\* C1: when the operator has set no allow-any-path override and the base
\* directory is not an unrestricted context, a saveUrlContent call whose
\* filePath resolves outside the base directory returns a Failure whose error
\* says the path is outside the base directory, and no file is created.
C1_EscapeIsRefused ==
    ( /\ Called
      /\ ~Truthy(launchEnv["MCP_ALLOW_ANY_PATH"])
      /\ Truthy(req.baseDir)
      /\ ~UnrestrictedContext(req.baseDir)
      /\ ~InSubtree(RequestTarget, Resolve(cwd, <<req.baseDir>>)) )
    => ( /\ Done
         /\ req.result.json.success = FALSE
         /\ Includes(req.result.json.error, <<"outside", "the", "base", "directory">>)
         /\ req.fetchCalls = 0
         /\ files = req.filesBefore )

\* C6: a URL that parses but whose scheme is not http or https yields a
\* Failure, and no fetch call is issued for it.
C6_OtherSchemesAreRefused ==
    ( /\ Called
      /\ UrlParses(req.url)
      /\ UrlScheme(req.url) \notin {"http", "https"} )
    => ( /\ req.fetchCalls = 0
         /\ Done => req.result.json.success = FALSE )

\* C7 as stated: a URL that does not parse yields a Failure whose error
\* contains "Invalid URL"; no fetch is issued and neither the destination
\* file nor its parent directory is created.
C7_UnparsableUrlSaysInvalidUrl ==
    (Called /\ ~UrlParses(req.url))
    => ( /\ Done
         /\ req.result.json.success = FALSE
         /\ Includes(req.result.json.error, <<"Invalid", "URL">>)
         /\ req.fetchCalls = 0
         /\ files = req.filesBefore
         /\ dirs = req.dirsBefore )

\* C7 as amended: a URL that does not parse yields a Failure, no fetch is
\* issued and neither a file nor a directory is created; the error contains
\* "Invalid URL" whenever the handler got as far as the URL (the base
\* directory was resolved and the path check accepted the destination),
\* and is the error of that earlier step otherwise.
C7_UnparsableUrlFails ==
    (Called /\ ~UrlParses(req.url))
    => ( /\ Done
         /\ req.result.json.success = FALSE
         /\ req.absolutePath # Undefined
            => Includes(req.result.json.error, <<"Invalid", "URL">>)
         /\ req.absolutePath = Undefined
            => \/ req.result.json.error = CwdErrorMessage
               \/ req.result.json.error = InvalidPathMessage(req.baseDir)
         /\ req.fetchCalls = 0
         /\ files = req.filesBefore
         /\ dirs = req.dirsBefore )

\* "not-a-url" reached the URL validation and was refused there.
C7_Witness ==
    /\ Done
    /\ req.url = <<"not-a-url">>
    /\ req.absolutePath # Undefined
    /\ req.result.json.error = <<"Invalid", "URL", "format:", "not-a-url">>
    /\ req.fetchCalls = 0

\* C8: after a non-2xx response the Failure's error text includes the status
\* code and status text, and the outcome carries the url field and a
\* statusCode field equal to the HTTP status.
C8_HttpErrorCarriesStatus ==
    (Done /\ req.response.kind = "response" /\ ~ResponseOk(req.response.status))
    => ( /\ req.result.json.success = FALSE
         /\ Includes(req.result.json.error,
                     <<ToString(req.response.status), req.response.statusText>>)
         /\ "url" \in DOMAIN req.result.json
         /\ "statusCode" \in DOMAIN req.result.json
         /\ req.result.json.statusCode = req.response.status )

\* C9: a transfer that fails before the streaming stage (rejected path,
\* unparsable URL, network failure, non-2xx response) neither creates a file
\* nor changes the content of an existing one.
C9_EarlyFailureLeavesFiles ==
    (Failed /\ req.stage # "streaming") => files = req.filesBefore

\* A 404 came back for a destination that already held a file, and the file
\* is as it was.
C9_Witness ==
    /\ Failed
    /\ req.stage = "fetching"
    /\ req.response.kind = "response"
    /\ req.response.status = 404
    /\ req.absolutePath \in DOMAIN req.filesBefore
    /\ files[req.absolutePath] = ExistingContent

\* C10: a transfer whose 2xx response has a body of N bytes, N >= 0, ends in
\* Success unless a file-system or stream error stops it; on Success fileSize
\* is N and the file at Success.filePath exists, is N bytes long and equals
\* the body byte for byte.
C10_RoundTrip ==
    /\ Succeeded
       => ( /\ ResponseOk(req.response.status)
            /\ req.result.json.fileSize = Len(req.response.body)
            /\ req.result.json.filePath \in DOMAIN files
            /\ Len(files[req.result.json.filePath]) = Len(req.response.body)
            /\ files[req.result.json.filePath] = req.response.body )
    /\ ( /\ Failed
         /\ req.response.kind = "response"
         /\ ResponseOk(req.response.status)
         /\ req.response.body # NullBody )
       => req.result.json.error \in {MkdirErrorMessage, OpenErrorMessage,
                                      StreamErrorMessage, StatErrorMessage}

\* An empty body replaced a file that held content: the result is Success
\* with fileSize 0 and the file is empty.
C10_Witness ==
    /\ Succeeded
    /\ req.response.body = <<>>
    /\ req.absolutePath \in DOMAIN req.filesBefore
    /\ req.filesBefore[req.absolutePath] = ExistingContent
    /\ req.result.json.fileSize = 0
    /\ files[req.absolutePath] = <<>>

\* C11: no error raised at any stage of a saveUrlContent call escapes the
\* handler: an invocation in which an error was raised has returned, and what
\* it returned is the Failure record {success: false, error: <message>} with
\* the message of that error.
C11_ErrorsBecomeFailures ==
    \A i \in Invocations :
        reqs[i].thrown # Undefined
        => /\ reqs[i].pc = "done"
           /\ reqs[i].result =
                [json |-> [success |-> FALSE, error |-> reqs[i].thrown], isError |-> TRUE]

\* The pipeline failed after the destination was opened and the handler
\* returned the Failure with the stream's message.
C11_Witness ==
    /\ Done
    /\ req.opened
    /\ req.thrown = StreamErrorMessage
    /\ req.result.json = [success |-> FALSE, error |-> StreamErrorMessage]

SuccessFields == {"success", "filePath", "fileSize", "contentType", "url", "statusCode"}
FailureFields == {"success", "error"}

\* C12: every invocation returns exactly one outcome record, of exactly one
\* variant: success = true with filePath, fileSize, contentType, url and
\* statusCode and no error, or success = false with an error and no filePath,
\* fileSize or contentType; isError is set exactly on the failure variant;
\* nothing is returned before the invocation is done and what was returned
\* does not change afterwards.
C12_OneOutcomeOneVariant ==
    /\ [](\A i \in Invocations :
            IF reqs[i].pc = "done"
            THEN \/ /\ reqs[i].result.json.success = TRUE
                    /\ DOMAIN reqs[i].result.json = SuccessFields
                    /\ reqs[i].result.isError = FALSE
                 \/ /\ reqs[i].result.json.success = FALSE
                    /\ DOMAIN reqs[i].result.json = FailureFields
                    /\ reqs[i].result.isError = TRUE
            ELSE reqs[i].result = NoResult)
    /\ [][\A i \in Invocations : reqs[i].pc = "done" => reqs'[i] = reqs[i]]_vars

\* Both variants exist: this one is a Success.
C12_Witness ==
    /\ Succeeded
    /\ DOMAIN req.result.json = SuccessFields
    /\ req.result.isError = FALSE

\* C13: whenever the path check rejects the destination, the Failure is
\* returned before any network I/O: no fetch is issued, no directory is
\* created and no file is opened for that request.
C13_RejectionPrecedesIO ==
    \A i \in Invocations :
        ( /\ reqs[i].pc # "idle"
          /\ Truthy(reqs[i].baseDir)
          /\ ~IsPathSafe(reqs[i].filePath, reqs[i].baseDir).safe )
        => ( /\ reqs[i].pc = "done"
             /\ reqs[i].result = Failure(InvalidPathMessage(reqs[i].baseDir))
             /\ reqs[i].fetchCalls = 0
             /\ ~reqs[i].opened
             /\ dirs = reqs[i].dirsBefore
             /\ files = reqs[i].filesBefore )

\* With MCP_ALLOW_ANY_PATH = "false" the request for "../../e" was refused
\* for a URL that could have been fetched.
C13_Witness ==
    /\ Done
    /\ penv["MCP_ALLOW_ANY_PATH"] = FalseText
    /\ req.filePath = <<".", ".", "/", ".", ".", "/", "e">>
    /\ req.url = <<"http", ":", "//", "h">>
    /\ req.result = Failure(InvalidPathMessage(WorkDir))
    /\ req.fetchCalls = 0

\* C14: the destination written and reported as Success.filePath is an
\* absolute path: normalize(filePath) resolved against the request's base
\* directory when filePath is relative, the normalized filePath itself when
\* it is absolute, in every environment.
C14_DestinationIsBaseResolved ==
    Succeeded
    => /\ IsAbsolute(req.result.json.filePath)
       /\ req.result.json.filePath \in DOMAIN files
       /\ req.result.json.filePath =
            IF IsAbsolute(req.filePath) THEN Normalize(req.filePath)
            ELSE Resolve(cwd, <<req.baseDir, Normalize(req.filePath)>>)

\* C15 as stated: on Success contentType equals the response's content-type
\* header value when the header is present, and "application/octet-stream"
\* when the response has no content-type header.
C15_ContentTypeIsHeaderOrDefault ==
    Succeeded
    => req.result.json.contentType =
         IF req.response.contentType # Undefined THEN req.response.contentType
         ELSE OctetStreamType

\* C15 as amended: on Success contentType equals the content-type header
\* value when the header is present with a non-empty value, and
\* "application/octet-stream" when the header is absent or its value is empty.
C15_ContentTypeIsNonEmptyHeaderOrDefault ==
    Succeeded
    => req.result.json.contentType =
         IF req.response.contentType # Undefined /\ req.response.contentType # <<>>
         THEN req.response.contentType
         ELSE OctetStreamType

\* A response without the header was saved and reported with the default.
C15_Witness ==
    /\ Succeeded
    /\ req.response.contentType = Undefined
    /\ req.result.json.contentType = <<"application/octet-stream">>

\* C17: an error during the streaming write after the destination was
\* opened ends the transfer with a Failure, and the destination file stays on
\* disk holding the bytes written so far: it is not deleted and not restored
\* to its previous content.
C17_PartialFileIsLeft ==
    (Done /\ req.opened /\ req.thrown = StreamErrorMessage)
    => /\ req.result = Failure(StreamErrorMessage)
       /\ req.absolutePath \in DOMAIN files
       /\ files[req.absolutePath] = SubSeq(req.response.body, 1, Written(req))

\* The stream failed after one byte of two: the file that held other content
\* now holds that one byte.
C17_Witness ==
    /\ Failed
    /\ req.opened
    /\ req.thrown = StreamErrorMessage
    /\ Len(req.response.body) = 2
    /\ Written(req) = 1
    /\ req.absolutePath \in DOMAIN req.filesBefore
    /\ req.filesBefore[req.absolutePath] = ExistingContent
    /\ files[req.absolutePath] = <<req.response.body[1]>>

(***************************************************************************)
(* Properties of repeated requests (checked under SpecSeq)                 *)
(***************************************************************************)

again == reqs["second"]

\* C16: two invocations in sequence with the same url and filePath, the same
\* response and an unchanged environment: when the first is a Success the
\* second is a Success too unless a stream or stat error stops it, with the
\* same fileSize and contentType, and the destination file then holds what it
\* held after the first: the second write replaces the first, with nothing
\* appended or left over.
C16_SecondSaveRepeatsFirst ==
    (Succeeded /\ again.pc = "done")
    => /\ again.url = req.url /\ again.filePath = req.filePath
       /\ again.response = req.response
       /\ again.result.json.success
          => /\ again.result.json.fileSize = req.result.json.fileSize
             /\ again.result.json.contentType = req.result.json.contentType
             /\ again.result.json.filePath = req.result.json.filePath
             /\ files[again.absolutePath] = again.filesBefore[again.absolutePath]
             /\ files[again.absolutePath] = req.response.body
       /\ ~again.result.json.success
          => again.result.json.error \in {StreamErrorMessage, StatErrorMessage}

\* Both saves of a two-byte body to "x" succeeded.
C16_Witness ==
    /\ Succeeded
    /\ again.pc = "done"
    /\ again.result.json.success
    /\ again.result.json.fileSize = 2
    /\ req.result.json.fileSize = 2
    /\ Len(files[again.absolutePath]) = 2

(***************************************************************************)
(* Properties of concurrent requests (checked under SpecConc)              *)
(***************************************************************************)

\* C18: the reported byte count is accurate: with two invocations in flight,
\* the same destination included, in every interleaving each Success's
\* fileSize is the byte length of that invocation's own response body.
C18_FileSizeIsOwnBodyLength ==
    \A i \in Invocations :
        (reqs[i].pc = "done" /\ reqs[i].result.json.success)
        => reqs[i].result.json.fileSize = Len(reqs[i].response.body)

\* What an invocation writing to p reads of a disk with files fs and
\* directories ds: whether its directory can be made (no file is in the
\* way), whether its file can be opened (it is no directory), and what the
\* file holds.
View(p, fs, ds) ==
    [mkdirFails |-> \E a \in Ancestors(Dirname(p)) : a \in DOMAIN fs,
     openFails |-> p \in ds,
     exists |-> p \in DOMAIN fs,
     content |-> IF p \in DOMAIN fs THEN fs[p] ELSE <<>>]

\* The path invocation i was asked to write.
TargetOf(i) ==
    IF IsAbsolute(reqs[i].filePath) THEN Resolve(cwd, <<reqs[i].filePath>>)
    ELSE Resolve(cwd, <<reqs[i].baseDir, reqs[i].filePath>>)

BothResolved(i, j) ==
    /\ i # j
    /\ reqs[i].absolutePath # Undefined
    /\ reqs[j].absolutePath # Undefined

\* C19 as stated: two simultaneous calls with distinct destination paths are
\* independent: no step of one call changes what the other call reads or has
\* written, so each call's outcome and its file's final content are those of
\* the call running alone.
C19_DistinctPathsAreIndependent ==
    [][\A i, j \in Invocations :
          ( /\ BothResolved(i, j)
            /\ TargetOf(i) # TargetOf(j)
            /\ reqs'[i] = reqs[i] )
          => View(reqs[i].absolutePath, files', dirs')
             = View(reqs[i].absolutePath, files, dirs)]_vars

\* C19 as amended: two simultaneous calls whose destination paths are
\* distinct, neither being a directory on the other's path, are independent:
\* no step of one call changes what the other call reads or has written.
C19_UnrelatedPathsAreIndependent ==
    [][\A i, j \in Invocations :
          ( /\ BothResolved(i, j)
            /\ TargetOf(i) \notin Ancestors(TargetOf(j))
            /\ TargetOf(j) \notin Ancestors(TargetOf(i))
            /\ reqs'[i] = reqs[i] )
          => View(reqs[i].absolutePath, files', dirs')
             = View(reqs[i].absolutePath, files, dirs)]_vars

\* Both calls are writing, to "x" and to "d/x", and each file holds only
\* its own call's bytes.
C19_Witness ==
    /\ reqs["first"].filePath = <<"x">>
    /\ reqs["second"].filePath = <<"d", "/", "x">>
    /\ reqs["first"].pc = "streaming" /\ reqs["first"].opened
    /\ reqs["second"].pc = "streaming" /\ reqs["second"].opened
    /\ files[reqs["first"].absolutePath] = <<"a">>
    /\ files[reqs["second"].absolutePath] = <<"b">>

(***************************************************************************)
(* The environment (checked under Spec)                                    *)
(***************************************************************************)

\* C20: the system only reads its ambient configuration: after any sequence
\* of server creations, path checks and saveUrlContent calls every
\* environment variable the path resolver consults (MCP_BASE_DIR,
\* MCP_ALLOW_ANY_PATH, the VSCODE_* variables) has the value the operator
\* gave it, so isPathSafe answers as it did before.
C20_EnvironmentIsOnlyRead ==
    \A n \in EnvNames : penv[n] = launchEnv[n]

(***************************************************************************)
(* The state machine of one transfer (checked under Spec)                  *)
(***************************************************************************)

\* The state of a transfer: the stage it is in, or how it ended.
Phase(r) ==
    IF r.pc = "done"
    THEN IF r.result.json.success THEN "completed" ELSE "failed"
    ELSE r.stage

Phases == {"pending", "validating", "fetching", "streaming", "failed", "completed"}
Terminal == {"failed", "completed"}

\* Pending -> Validating -> Fetching -> {Failed | Streaming} -> {Failed | Completed}
ChainEdges ==
    { <<"pending", "validating">>, <<"validating", "fetching">>,
      <<"fetching", "failed">>, <<"fetching", "streaming">>,
      <<"streaming", "failed">>, <<"streaming", "completed">> }

\* The chain with the edge a refused path or URL takes.
ChainEdgesWithRefusal == ChainEdges \cup { <<"validating", "failed">> }

Compose(R, S) ==
    { pq \in Phases \X Phases :
        \E m \in Phases : <<pq[1], m>> \in R /\ <<m, pq[2]>> \in S }
Twice(R) == R \cup Compose(R, R)
\* The pairs joined by a path of one or more edges.
Paths(E) == Twice(Twice(Twice(E)))

\* A step takes the transfer r to r2 along edges of E; r2.stage is the last
\* stage the transfer was in before it ended.
MovesAlong(E, r, r2) ==
    LET p == Phase(r)
        q == Phase(r2)
    IN  p # q =>
          IF q \in Terminal
          THEN /\ <<r2.stage, q>> \in E
               /\ p = r2.stage \/ <<p, r2.stage>> \in Paths(E)
          ELSE <<p, q>> \in Paths(E)

\* What the claim says besides the chain: one GET at most, the destination
\* opened once at most (a second open would truncate what was written),
\* streaming only after a 2xx response, no step after the end.
TransferState(r) ==
    /\ r.fetchCalls <= 1
    /\ r.stage = "streaming" =>
         /\ r.fetchCalls = 1
         /\ r.response.kind = "response"
         /\ r.response.status >= 200 /\ r.response.status <= 299
    /\ r.opened => r.stage = "streaming"
    /\ Phase(r) = "completed" => r.stage = "streaming" /\ r.opened

TransferStep(r, r2) ==
    /\ r2.fetchCalls >= r.fetchCalls
    /\ r.opened =>
         /\ r2.opened
         /\ Len(files'[r.absolutePath]) >= Len(files[r.absolutePath])
    /\ r.pc = "done" => r2 = r /\ files' = files /\ dirs' = dirs

\* C21 as stated: a single transfer moves only along Pending -> Validating ->
\* Fetching -> {Failed | Streaming} -> {Failed | Completed}; it issues at most
\* one HTTP GET and opens the destination file at most once, streaming starts
\* only after a 2xx response, and once Failed or Completed it takes no
\* further step.
C21_TransferFollowsChain ==
    /\ [](TransferState(req))
    /\ [][MovesAlong(ChainEdges, req, req') /\ TransferStep(req, req')]_vars

\* C21, amended: the same, with Failed also reached straight from Validating
\* (the path is refused, the URL does not parse, or the working directory
\* cannot be read), in which case no GET is issued.
C21_TransferFollowsChainOrIsRefused ==
    /\ [](TransferState(req))
    /\ [](Phase(req) = "failed" /\ req.stage = "validating" => req.fetchCalls = 0)
    /\ [][MovesAlong(ChainEdgesWithRefusal, req, req') /\ TransferStep(req, req')]_vars

\* A transfer went through every stage and completed after writing its body.
C21_Witness ==
    /\ Phase(req) = "completed"
    /\ req.fetchCalls = 1
    /\ req.opened
    /\ Len(req.response.body) = 2
    /\ files[req.absolutePath] = req.response.body

(***************************************************************************)
(* SpecLive: one invocation whose own steps are taken when they can be;    *)
(* nothing makes the remote server answer                                  *)
(***************************************************************************)

NextLive ==
    \/ CreateServer
    \/ \E url \in SeqUrls, filePath \in SeqPaths : Call("first", url, filePath)
    \/ \E outcome \in FetchOutcomes(req.url) : FetchSettles("first", outcome)
    \/ EnsureDir("first")
    \/ Open("first")
    \/ WriteChunk("first")
    \/ StreamEnds("first")
    \/ StreamError("first")
    \/ Stat("first")
    \/ StatError("first")

\* The event loop runs every continuation whose promise has settled and the
\* local disk completes every operation asked of it.  await fetch(url) is
\* given no signal and no timeout: when it settles is left to the server.
\* EnsureDir is enabled exactly when the invocation awaits fs.ensureDir; its
\* weak fairness is written out with that condition.
SpecLive ==
    /\ InitSeq
    /\ [][NextLive]_vars
    /\ ([]<>(req.pc # "ensureDir") \/ []<><<EnsureDir("first")>>_vars)
    /\ WF_vars(Open("first"))
    /\ WF_vars(WriteChunk("first"))
    /\ WF_vars(StreamEnds("first"))
    /\ WF_vars(Stat("first") \/ StatError("first"))

\* C22: every well-formed saveUrlContent invocation eventually returns a
\* structured outcome: with the pipeline's own steps weakly fair and the
\* remote server free to stall or never respond, a transfer does not stay in
\* Fetching or Streaming forever but reaches Completed or Failed.
C22_EveryInvocationReturns == Called ~> Done

(***************************************************************************)
(* Properties of isPathSafe with an explicit base (checked under SpecPath) *)
(***************************************************************************)

\* The last call was isPathSafe with a base directory, no override in force
\* and a base that is not an unrestricted context.
ProbeRestricted ==
    /\ probe.op = "isPathSafe"
    /\ Truthy(probe.baseDir)
    /\ probe.env["MCP_ALLOW_ANY_PATH"] # TrueText
    /\ ~UnrestrictedContext(probe.baseDir)

\* path.resolve can compute the resolved forms of the call's arguments.
ProbeResolves == ~(cwdGone /\ ~IsAbsolute(probe.baseDir))

ProbeErrorInside == ProbeRestricted /\ ~ProbeResolves

\* C25: isPathSafe fails closed: called with an explicit base directory, any
\* error raised inside the check is caught and the result is false; no
\* exception escapes from it.
C25_FailsClosed ==
    (probe.op = "isPathSafe" /\ Truthy(probe.baseDir)) =>
        /\ ~probe.raised
        /\ ProbeErrorInside => probe.safe = FALSE

\* A path that would lie under the relative base was judged after the
\* working directory was removed: the resolution threw and the answer was false.
C25_Witness ==
    /\ ProbeErrorInside
    /\ probe.filePath = <<"x">>
    /\ probe.baseDir = <<"r">>
    /\ ~probe.raised
    /\ probe.safe = FALSE

(***************************************************************************)
(* The configuration files of getBaseDirectory (checked under SpecBase)    *)
(***************************************************************************)

\* <cwd>/.mcp-config.json, <cwd>/mcp-config.json, <home>/.mcp-config.json
Candidates ==
    << cwd \o <<Sep>> \o DotConfigName,
       cwd \o <<Sep>> \o ConfigName,
       HomeDir \o <<Sep>> \o DotConfigName >>

\* Candidate k exists, parses as JSON and names an existing path.
Qualifies(k) == ConfigSource(Candidates[k]).matches

\* MCP_BASE_DIR is set and names an existing path.
BaseDirVariableApplies == penv["MCP_BASE_DIR"] \in OnDiskPaths

\* C26: when MCP_BASE_DIR does not apply, getBaseDirectory examines the
\* candidate config files in the order <cwd>/.mcp-config.json,
\* <cwd>/mcp-config.json, <home>/.mcp-config.json (<cwd> being what
\* process.cwd() answers) and returns the baseDir of the first candidate that
\* exists, parses as JSON and names an existing path; a candidate that is
\* missing, fails to parse, lacks baseDir or names a nonexistent path is
\* skipped without raising, and when none qualifies no config file decides.
C26_FirstQualifyingConfigWins ==
    (probe.op = "getBaseDirectory" /\ ~BaseDirVariableApplies /\ ~cwdGone) =>
        /\ ~probe.raised
        /\ \A k \in DOMAIN Candidates :
             (Qualifies(k) /\ \A j \in 1..(k - 1) : ~Qualifies(j))
                => probe.dir = ConfigSource(Candidates[k]).value
        /\ (\A k \in DOMAIN Candidates : ~Qualifies(k))
                => probe.dir \notin {CfgDir1, CfgDir2, CfgDir3}

\* An unparsable first file and a second file without baseDir were skipped
\* and the home directory's file decided.
C26_Witness ==
    /\ probe.op = "getBaseDirectory"
    /\ ~BaseDirVariableApplies
    /\ Candidates[1] \in DOMAIN files /\ files[Candidates[1]] = BadJson
    /\ Candidates[2] \in DOMAIN files /\ files[Candidates[2]] = EmptyJson
    /\ Qualifies(3)
    /\ ~probe.raised
    /\ probe.dir = CfgDir3

(***************************************************************************)
(* The order and the destination of a transfer (checked under Spec)        *)
(***************************************************************************)

\* The transfer met no error of the file system or of the stream.
NoFilesystemError ==
    req.thrown \notin {MkdirErrorMessage, OpenErrorMessage, StreamErrorMessage,
                       StatErrorMessage}

\* C27: every response with a status in 200-299 proceeds to the streaming
\* write: if no filesystem error occurs the outcome is Success and the
\* destination file is written, also when the body is empty or absent (N = 0,
\* for example a 204 response).
C27_Every2xxIsSaved ==
    ( /\ Done
      /\ req.response.kind = "response"
      /\ req.response.status >= 200 /\ req.response.status <= 299
      /\ NoFilesystemError )
    => ( /\ Succeeded
         /\ req.absolutePath \in DOMAIN files
         /\ files[req.absolutePath] =
              IF req.response.body = NullBody THEN <<>> ELSE req.response.body )

\* C28: within one transfer the destination's parent directory is prepared
\* (created recursively if absent) before the HTTP GET is issued: once a GET
\* was issued the parent directory exists.
C28_DirectoryPreparedBeforeFetch ==
    req.fetchCalls >= 1 => Dirname(req.absolutePath) \in dirs

\* C29: the path that is written is the path that was checked: for every
\* request that opens a destination file, the absolute path passed to
\* saveStreamToFile equals the resolved path isPathSafe evaluated for that
\* request; so with the override inactive and the base directory not an
\* unrestricted context, every file the handler writes lies under the base
\* directory getBaseDirectory returned for that request.
C29_WrittenIsChecked ==
    req.opened =>
        /\ req.absolutePath = RequestTarget
        /\ ( /\ penv["MCP_ALLOW_ANY_PATH"] # TrueText
             /\ ~UnrestrictedContext(req.baseDir) )
           => InSubtree(req.absolutePath, Resolve(cwd, <<req.baseDir>>))

(***************************************************************************)
(* Properties of the HTTP server (checked under SpecHttp)                  *)
(***************************************************************************)

\* The request's header names a session that was registered when it arrived.
NamesSession(r) == Truthy(r.header) /\ r.header \in DOMAIN r.before

\* The request is a POST without a session id whose body is an initialize request.
OpensSession(r) ==
    r.method = "POST" /\ ~Truthy(r.header) /\ IsInitializeRequest(r.body)

\* C23: on /mcp a request is handed to a transport only when its
\* mcp-session-id header names a registered session (it goes to exactly that
\* session's transport) or when it is a POST with no session id whose body is
\* an initialize request (it goes to a newly created transport connected to a
\* new server); every other request is answered with status 400, reaches no
\* transport and creates no session.
C23_OnlySessionsReachTransports ==
    LET r == http.last
    IN  r.method # "none" =>
          /\ r.answer = "transport" =>
               \/ NamesSession(r) /\ r.transport = r.before[r.header] /\ ~r.created
               \/ OpensSession(r) /\ r.created /\ r.transport \notin {r.before[k] : k \in DOMAIN r.before}
          /\ ~(NamesSession(r) \/ OpensSession(r)) =>
               /\ r.answer = "router"
               /\ r.status = 400
               /\ ~r.created
               /\ http.transports = r.before

\* C30: in every reachable state of the HTTP server each key of the session
\* map is the sessionId of the transport stored under it; an entry is added
\* only when a transport reports that its session was initialized, it is
\* removed when that transport closes, and from then on every request
\* carrying that session id is answered 400 and never reaches the closed
\* transport.
C30_SessionMapFollowsTransports ==
    /\ [](\A k \in DOMAIN http.transports :
             /\ http.sessionId[http.transports[k]] = k
             /\ ~http.closed[http.transports[k]])
    /\ [][ /\ \A k \in DOMAIN http'.transports \ DOMAIN http.transports :
                /\ http.sessionId[http'.transports[k]] = Undefined
                /\ http'.sessionId[http'.transports[k]] = k
           /\ \A t \in TransportIds :
                (http'.closed[t] /\ Truthy(http.sessionId[t]))
                    => http.sessionId[t] \notin DOMAIN http'.transports
           /\ http'.tick # http.tick =>
                /\ (\E t \in TransportIds :
                        http.closed[t] /\ Truthy(http.sessionId[t])
                        /\ http'.last.header = http.sessionId[t])
                   => (http'.last.answer = "router" /\ http'.last.status = 400)
                /\ http'.last.answer = "transport" => ~http.closed[http'.last.transport]
         ]_vars

\* A session was registered and its transport was closed; a POST that carries
\* its id was answered 400 by the route.
C30_Witness ==
    /\ \E t \in TransportIds :
          /\ http.closed[t]
          /\ Truthy(http.sessionId[t])
          /\ http.last.header = http.sessionId[t]
    /\ http.last.method = "POST"
    /\ http.last.answer = "router"
    /\ http.last.status = 400
    /\ DOMAIN http.transports # {}

====
